---------------------------- MODULE Spec2Model ----------------------------
(***************************************************************************)
(* rusty-socket: a fixed-size worker pool fed by a non-blocking accept     *)
(* loop, a single-shot SIGTERM coordinator, and the per-connection request *)
(* handler with its path resolver.                                         *)
(*                                                                         *)
(*   SpecPool      ThreadPool alone (structs.rs) driven by a caller that   *)
(*                 submits jobs and drops the pool.                        *)
(*   FairSpecPool  SpecPool with the threads scheduled fairly and job      *)
(*                 bodies that terminate.                                  *)
(*   Spec          the program: main (main.rs), the signal thread, the     *)
(*                 pool, and handle_client as the job body.                *)
(*   FairSpec      Spec with the program's threads scheduled fairly; the   *)
(*                 clients and the signal source are not obliged to act.   *)
(*   SpecResolve   one call of sanitize_path (handler.rs) on a requested   *)
(*                 string and a file system drawn from bounded sets.       *)
(*   SpecHandler   one call of handle_client on a read result, a request   *)
(*                 buffer and a file system drawn from bounded sets.       *)
(*   SpecServe     SpecPool with handle_client followed step by step as    *)
(*                 the body of one job at a time.                          *)
(*                                                                         *)
(* Strings are byte sequences; buffers are ASCII, so from_utf8_lossy is    *)
(* the identity on them.  Job bodies do not panic.                         *)
(***************************************************************************)
EXTENDS Integers, Sequences, FiniteSets, TLC

\* ------------------------------------------------------------------ bounds
MaxWorkers == 2      \* largest pool size M tried (thread_count)
MaxJobs    == 3      \* jobs submitted to the pool in one behaviour (N)
MaxConns   == 2      \* connections the program accepts in one behaviour
MaxSignals == 2      \* SIGTERMs the environment delivers
CountCap   == 2      \* the history counters saturate here

Jobs == 1..MaxJobs
NoJob == 0
Closed == -1         \* recv() returned Err(RecvError)

VARIABLES
    \* ---- ThreadPool (structs.rs)
    size,        \* number of Workers the pool was built with
    sender,      \* ThreadPool.sender: "open" (Some) or "closed" (None)
    queue,       \* the mpsc channel: jobs sent and not yet received
    lockHolder,  \* Worker holding Mutex<Receiver>, or 0
    wpc,         \* Worker -> "lock" | "recv" | "unlock" | "exec" | "done"
    wres,        \* Worker -> the value recv() returned (a job, Closed, NoJob)
    jpc,         \* job -> "new" | "queued" | "dropped" | "run" | "read" | "write" | "done"
    runs,        \* job -> number of times its body was started
    logs,        \* number of "Failed to send job" lines written by execute
    dpc,         \* Drop for ThreadPool: "live" | "join" | "returned"
    joinIdx,     \* Drop: index of the Worker being joined
    joined,      \* Workers whose thread handle was joined
    nextJob,     \* next job identity
    arg,         \* the job handed to the execute call in progress
    late,        \* history: jobs whose execute call found the sender gone
    dropSnap,    \* history: jobs sent and not finished when drop began
    \* ---- caller of the pool in SpecPool
    cpc,         \* "idle" | "call"
    \* ---- main and the signal thread (main.rs)
    running,     \* the AtomicBool
    sigPc,       \* signal thread: "wait" | "woken" | "done"
    sigCount,    \* SIGTERMs delivered so far
    mainPc,      \* "check" | "accept" | "execute" | "sleep" | "drop" | "join" | "exited"
    conn,        \* job -> the connection: "silent" | "sent" | "eof" | "err" | "closed"
    resp,        \* job -> number of responses written to the connection
    attemptsAfter, \* accept() calls begun after the flag was cleared
    submitsAfter,  \* execute() calls made after the flag was cleared
    \* ---- one call of sanitize_path (handler.rs)
    fsv,         \* which of the file systems FsKinds is mounted
    requested,   \* requested_path, a string of bytes
    rpc,         \* "call" | "returned"
    result,      \* the Option<PathBuf> returned
    \* ---- one call of handle_client (handler.rs)
    hpc,         \* "read" | "lines" | "validate" | "method" | "sanitize" | "serve" | "closed"
    readRes,     \* what stream.read returns: "data" | "zero" | "err"
    buffer,      \* the bytes read
    writeRes,    \* how the writes go: "ok" | "hdr_fail" | "body_fail"
    fileOk,      \* whether fs::read succeeds
    calls,       \* the calls of send_response made
    wire,        \* what was written to the connection
    resolverCalls, \* calls of sanitize_path made
    fileReads,   \* calls of fs::read made
    parts,       \* the tokens of the request line
    hfile        \* the path sanitize_path returned

poolVars == <<size, sender, queue, lockHolder, wpc, wres, jpc, runs, logs,
              dpc, joinIdx, joined, nextJob, arg, late, dropSnap>>
progVars == <<running, sigPc, sigCount, mainPc, conn, resp, attemptsAfter, submitsAfter>>
resVars == <<fsv, requested, rpc, result>>
hVars == <<hpc, readRes, buffer, writeRes, fileOk, calls, wire, resolverCalls,
           fileReads, parts, hfile>>
reqVars == <<resVars, hVars>>
vars == <<poolVars, cpc, progVars, reqVars>>

Workers == 1..size

\* ------------------------------------------------- strings and the file system
\* Strings are sequences of bytes.
B == [slash |-> 47, dot |-> 46, percent |-> 37, space |-> 32, nul |-> 0,
      f |-> 102, i |-> 105, r |-> 114, s |-> 115,
      zero |-> 48, two |-> 50, e |-> 101,
      G |-> 71, E |-> 69, T |-> 84, P |-> 80, O |-> 79, S |-> 83,
      H |-> 72, one |-> 49, cr |-> 13, lf |-> 10,
      A |-> 65, R |-> 82, Bb |-> 66]

MaxLen == 4          \* units in a requested path

\* The pieces requested paths are built from: "/", ".", "f", "s", "%2e",
\* "%2f", "%20", "%ff" and a lone "%".
Units == { <<B.slash>>, <<B.dot>>, <<B.f>>, <<B.s>>,
           <<B.percent, B.two, B.e>>, <<B.percent, B.two, B.f>>,
           <<B.percent, B.two, B.zero>>, <<B.percent, B.f, B.f>>,
           <<B.percent>> }

RECURSIVE Flatten(_)
Flatten(ss) == IF ss = <<>> THEN <<>> ELSE Head(ss) \o Flatten(Tail(ss))

UnitSeqs(n) == UNION {[1..k -> Units] : k \in 0..n}

\* base_dir as main passes it (canonical) and index_file: "/r" and "i".
BaseDir == <<B.slash, B.r>>
IndexFile == <<B.i>>

\* The mounted tree.  Always: / and /r directories, /r/f /f and /rf regular
\* files.  /r/i is a regular file except under "sdir".  /r/s varies:
FsKinds == {"absent", "sdir", "fifo", "toOutside", "toSibling", "toInside",
            "toParent", "loop"}

NodeKind(v, p) ==
    CASE p = <<>> -> "dir"
      [] p = << <<B.r>> >> -> "dir"
      [] p = << <<B.r>>, <<B.f>> >> -> "file"
      [] p = << <<B.f>> >> -> "file"
      [] p = << <<B.r, B.f>> >> -> "file"
      [] p = << <<B.r>>, <<B.i>> >> -> IF v = "sdir" THEN "none" ELSE "file"
      [] p = << <<B.r>>, <<B.s>> >> ->
            CASE v = "absent" -> "none"
              [] v = "sdir" -> "dir"
              [] v = "fifo" -> "fifo"
              [] OTHER -> "link"
      [] p = << <<B.r>>, <<B.s>>, <<B.f>> >> -> IF v = "sdir" THEN "file" ELSE "none"
      [] OTHER -> "none"

\* Where the symbolic link /r/s points.
LinkTarget(v) ==
    CASE v = "toOutside" -> <<B.slash, B.f>>
      [] v = "toSibling" -> <<B.slash, B.r, B.f>>
      [] v = "toInside"  -> <<B.f>>
      [] v = "toParent"  -> <<B.dot, B.dot>>
      [] OTHER           -> <<B.s>>

Err == [ok |-> FALSE, val |-> <<>>]
Ok(x) == [ok |-> TRUE, val |-> x]
None == [some |-> FALSE, path |-> <<>>]
Some(p) == [some |-> TRUE, path |-> p]

\* ---------------------------------------------------------- urlencoding::decode
HexVal(c) ==
    IF c \in 48..57 THEN c - 48
    ELSE IF c \in 97..102 THEN c - 87
    ELSE IF c \in 65..70 THEN c - 55
    ELSE -1

\* decode_binary: %XX becomes one byte; a % not followed by two hex digits
\* is copied as it is.
RECURSIVE DecodeBinary(_)
DecodeBinary(d) ==
    IF d = <<>> THEN <<>>
    ELSE IF Head(d) # B.percent THEN <<Head(d)>> \o DecodeBinary(Tail(d))
    ELSE LET rest == Tail(d) IN
         IF Len(rest) < 2 THEN <<B.percent>> \o rest
         ELSE IF HexVal(rest[1]) < 0 THEN <<B.percent>> \o DecodeBinary(rest)
         ELSE IF HexVal(rest[2]) < 0
              THEN <<B.percent, rest[1]>> \o DecodeBinary(Tail(rest))
         ELSE <<16 * HexVal(rest[1]) + HexVal(rest[2])>>
              \o DecodeBinary(SubSeq(rest, 3, Len(rest)))

IsCont(d, k) == Len(d) >= k /\ d[k] \in 128..191

\* String::from_utf8: well-formed UTF-8.
RECURSIVE Utf8Valid(_)
Utf8Valid(d) ==
    IF d = <<>> THEN TRUE
    ELSE LET b == Head(d) IN
         IF b < 128 THEN Utf8Valid(Tail(d))
         ELSE IF b \in 194..223
              THEN IsCont(d, 2) /\ Utf8Valid(SubSeq(d, 3, Len(d)))
         ELSE IF b \in 224..239
              THEN /\ IsCont(d, 2) /\ IsCont(d, 3)
                   /\ (b = 224 => d[2] >= 160)
                   /\ (b = 237 => d[2] <= 159)
                   /\ Utf8Valid(SubSeq(d, 4, Len(d)))
         ELSE IF b \in 240..244
              THEN /\ IsCont(d, 2) /\ IsCont(d, 3) /\ IsCont(d, 4)
                   /\ (b = 240 => d[2] >= 144)
                   /\ (b = 244 => d[2] <= 143)
                   /\ Utf8Valid(SubSeq(d, 5, Len(d)))
         ELSE FALSE

decode(data) ==
    LET bytes == DecodeBinary(data)
    IN  IF Utf8Valid(bytes) THEN Ok(bytes) ELSE Err

\* ------------------------------------------------------------ str and Path
IsWhite(c) == c \in {9, 10, 11, 12, 13, 32}

RECURSIVE TrimStart(_)
TrimStart(t) == IF t # <<>> /\ IsWhite(Head(t)) THEN TrimStart(Tail(t)) ELSE t

RECURSIVE TrimEnd(_)
TrimEnd(t) ==
    IF t # <<>> /\ IsWhite(t[Len(t)]) THEN TrimEnd(SubSeq(t, 1, Len(t) - 1)) ELSE t

\* str::trim
trim(t) == TrimEnd(TrimStart(t))

\* Mutant of trim_start_matches: one leading slash is removed, not all.
strip_prefix_once(t) ==
    IF t # <<>> /\ Head(t) = B.slash THEN Tail(t) ELSE t

\* str::trim_start_matches('/'): every leading '/' is removed.
RECURSIVE trim_start_matches(_)
trim_start_matches(t) ==
    IF t # <<>> /\ Head(t) = B.slash THEN trim_start_matches(Tail(t)) ELSE t

\* Path::join: an absolute argument replaces the base.
join(base, rel) ==
    IF rel # <<>> /\ Head(rel) = B.slash THEN rel
    ELSE IF base # <<>> /\ base[Len(base)] = B.slash THEN base \o rel
    ELSE base \o <<B.slash>> \o rel

\* The pieces of a path between slashes (empty pieces included).
RECURSIVE SplitAcc(_, _)
SplitAcc(t, cur) ==
    IF t = <<>> THEN <<cur>>
    ELSE IF Head(t) = B.slash THEN <<cur>> \o SplitAcc(Tail(t), <<>>)
    ELSE SplitAcc(Tail(t), Append(cur, Head(t)))

Split(t) == SplitAcc(t, <<>>)

\* Path::components of an absolute path without "." and ".." pieces.
Components(t) == SelectSeq(Split(t), LAMBDA c : c # <<>> /\ c # <<B.dot>>)

Parent(p) == IF p = <<>> THEN <<>> ELSE SubSeq(p, 1, Len(p) - 1)

LinkLimit == 40      \* symbolic links followed before ELOOP

\* realpath: walk the pieces from directory `cur`, following links.
RECURSIVE Walk(_, _, _, _)
Walk(v, cur, comps, fuel) ==
    IF comps = <<>> THEN Ok(cur)
    ELSE LET c == Head(comps)
             rest == Tail(comps)
         IN  IF c = <<>> \/ c = <<B.dot>> THEN Walk(v, cur, rest, fuel)
             ELSE IF c = <<B.dot, B.dot>> THEN Walk(v, Parent(cur), rest, fuel)
             ELSE LET p == Append(cur, c)
                      k == NodeKind(v, p)
                  IN  CASE k = "none" -> Err
                        [] k = "dir"  -> Walk(v, p, rest, fuel)
                        [] k = "link" ->
                             IF fuel = 0 THEN Err
                             ELSE LET t == LinkTarget(v)
                                  IN  Walk(v, IF Head(t) = B.slash THEN <<>> ELSE cur,
                                           Split(t) \o rest, fuel - 1)
                        [] OTHER -> IF rest = <<>> THEN Ok(p) ELSE Err

\* Path::canonicalize of an absolute path.
canonicalize(v, t) ==
    IF \E k \in 1..Len(t) : t[k] = B.nul THEN Err
    ELSE Walk(v, <<>>, Split(t), LinkLimit)

\* Path::starts_with: whole components are compared.
starts_with(p, base) ==
    LET b == Components(base)
    IN  Len(b) <= Len(p) /\ SubSeq(p, 1, Len(b)) = b

\* Path::is_file
is_file(v, p) == NodeKind(v, p) = "file"

\* Mutant of TargetPath: only "/" stands for the index file; the empty
\* string is joined to the root like any other value.
TargetPathSlashOnly(base_dir, requested_path, index_file) ==
    LET req == trim(decode(requested_path).val)
    IN  IF req = <<B.slash>>
        THEN join(base_dir, index_file)
        ELSE join(base_dir, trim_start_matches(req))

\* The path sanitize_path hands to canonicalize.
TargetPath(base_dir, requested_path, index_file) ==
    LET req == trim(decode(requested_path).val)
    IN  IF req = <<B.slash>> \/ req = <<>>
        THEN join(base_dir, index_file)
        ELSE join(base_dir, trim_start_matches(req))

\* Mutant of sanitize_path: the root is compared as a string prefix.
sanitize_path_str_prefix(v, base_dir, requested_path, index_file) ==
    IF base_dir = <<>> \/ index_file = <<>> THEN None
    ELSE IF ~decode(requested_path).ok THEN None
    ELSE LET c == canonicalize(v, TargetPath(base_dir, requested_path, index_file))
             flat == IF c.ok THEN Flatten([k \in 1..Len(c.val) |-> <<B.slash>> \o c.val[k]])
                     ELSE <<>>
         IN  IF /\ c.ok
                /\ Len(flat) >= Len(base_dir)
                /\ SubSeq(flat, 1, Len(base_dir)) = base_dir
                /\ is_file(v, c.val)
             THEN Some(c.val)
             ELSE None

\* sanitize_path (handler.rs)
sanitize_path(v, base_dir, requested_path, index_file) ==
    IF base_dir = <<>> \/ index_file = <<>> THEN None
    ELSE IF ~decode(requested_path).ok THEN None
    ELSE LET c == canonicalize(v, TargetPath(base_dir, requested_path, index_file))
         IN  IF c.ok /\ starts_with(c.val, base_dir) /\ is_file(v, c.val)
             THEN Some(c.val)
             ELSE None

\* ------------------------------------- SpecResolve: one call of sanitize_path
ResInit ==
    /\ fsv \in FsKinds
    /\ requested \in {Flatten(u) : u \in UnitSeqs(MaxLen)}
    /\ rpc = "call"
    /\ result = None

ResIdle ==
    /\ requested = <<>>
    /\ rpc = "returned"
    /\ result = None


Resolve ==
    /\ rpc = "call"
    /\ result' = sanitize_path(fsv, BaseDir, requested, IndexFile)
    /\ rpc' = "returned"
    /\ UNCHANGED <<poolVars, cpc, progVars, fsv, requested, hVars>>


\* --------------------------------------------------------- handle_client
\* What a regular file holds.
Contents(p) ==
    IF p = << <<B.r>>, <<B.f>> >> THEN <<B.f, B.lf>>
    ELSE IF p = << <<B.r>>, <<B.i>> >> THEN <<B.i>>
    ELSE <<>>

\* str::lines().next(): the text before the first "\n", less one "\r" before
\* it; none for the empty string.
RECURSIVE UpToLf(_)
UpToLf(t) ==
    IF t = <<>> \/ Head(t) = B.lf THEN <<>> ELSE <<Head(t)>> \o UpToLf(Tail(t))

FirstLine(t) ==
    IF t = <<>> THEN Err
    ELSE LET l == UpToLf(t)
         IN  IF Len(l) < Len(t) /\ l # <<>> /\ l[Len(l)] = B.cr
             THEN Ok(SubSeq(l, 1, Len(l) - 1))
             ELSE Ok(l)

\* str::split_whitespace: the maximal runs of non-whitespace.
RECURSIVE SplitWsAcc(_, _)
SplitWsAcc(t, cur) ==
    IF t = <<>> THEN (IF cur = <<>> THEN <<>> ELSE <<cur>>)
    ELSE IF IsWhite(Head(t))
         THEN (IF cur = <<>> THEN <<>> ELSE <<cur>>) \o SplitWsAcc(Tail(t), <<>>)
    ELSE SplitWsAcc(Tail(t), Append(cur, Head(t)))

split_whitespace(t) == SplitWsAcc(t, <<>>)

\* parts.next(): the k-th token, or none.
Part(toks, k) == IF Len(toks) >= k THEN Ok(toks[k]) ELSE Err

GET == <<B.G, B.E, B.T>>
HTTP11 == <<B.H, B.T, B.T, B.P, B.slash, B.one, B.dot, B.one>>

\* Path::extension of the file name: what follows its last dot, unless the
\* name has no dot or only a leading one.
RECURSIVE LastDot(_, _)
LastDot(name, k) ==
    IF k = 0 THEN 0 ELSE IF name[k] = B.dot THEN k ELSE LastDot(name, k - 1)

Extension(p) ==
    LET name == p[Len(p)]
        k == LastDot(name, Len(name))
    IN  IF k <= 1 THEN Err ELSE Ok(SubSeq(name, k + 1, Len(name)))

\* The suffix table of handle_client.
MimeOf(ext) ==
    CASE ext = <<104, 116, 109, 108>> -> "text/html"   \* html
      [] ext = <<104, 116, 109>> -> "text/html"   \* htm
      [] ext = <<106, 115>> -> "application/javascript"   \* js
      [] ext = <<99, 115, 115>> -> "text/css"   \* css
      [] ext = <<112, 110, 103>> -> "image/png"   \* png
      [] ext = <<106, 112, 103>> -> "image/jpeg"   \* jpg
      [] ext = <<106, 112, 101, 103>> -> "image/jpeg"   \* jpeg
      [] ext = <<105, 99, 111>> -> "image/x-icon"   \* ico
      [] ext = <<103, 105, 102>> -> "image/gif"   \* gif
      [] ext = <<119, 101, 98, 112>> -> "image/webp"   \* webp
      [] ext = <<115, 118, 103>> -> "image/svg+xml"   \* svg
      [] ext = <<106, 115, 111, 110>> -> "application/json"   \* json
      [] ext = <<120, 109, 108>> -> "application/xml"   \* xml
      [] ext = <<112, 100, 102>> -> "application/pdf"   \* pdf
      [] ext = <<122, 105, 112>> -> "application/zip"   \* zip
      [] ext = <<103, 122>> -> "application/gzip"   \* gz
      [] ext = <<55, 122>> -> "application/x-7z-compressed"   \* 7z
      [] ext = <<114, 97, 114>> -> "application/x-rar-compressed"   \* rar
      [] ext = <<116, 97, 114>> -> "application/x-tar"   \* tar
      [] ext = <<109, 112, 51>> -> "audio/mpeg"   \* mp3
      [] ext = <<109, 112, 52>> -> "video/mp4"   \* mp4
      [] ext = <<119, 101, 98, 109>> -> "video/webm"   \* webm
      [] ext = <<109, 112, 101, 103>> -> "video/mpeg"   \* mpeg
      [] ext = <<109, 52, 97>> -> "audio/mp4"   \* m4a
      [] ext = <<111, 103, 103>> -> "audio/ogg"   \* ogg
      [] ext = <<111, 103, 97>> -> "audio/ogg"   \* oga
      [] ext = <<119, 97, 118>> -> "audio/wav"   \* wav
      [] ext = <<119, 111, 102, 102>> -> "font/woff"   \* woff
      [] ext = <<119, 111, 102, 102, 50>> -> "font/woff2"   \* woff2
      [] ext = <<116, 116, 102>> -> "font/ttf"   \* ttf
      [] ext = <<111, 116, 102>> -> "font/otf"   \* otf
      [] ext = <<101, 111, 116>> -> "application/vnd.ms-fontobject"   \* eot
      [] OTHER -> "text/plain"

content_type(p) == IF Extension(p).ok THEN MimeOf(Extension(p).val) ELSE "text/plain"

NoContent == [some |-> FALSE, bytes |-> <<>>]
SomeContent(c) == [some |-> TRUE, bytes |-> c]

\* send_response: the header block, then the body if there is one; a failed
\* write ends the call (a failed write is taken to deliver nothing).
send_response(status, content, ctype) ==
    /\ calls' = Append(calls, [status |-> status, content |-> content, ctype |-> ctype])
    /\ wire' =
          IF writeRes = "hdr_fail" THEN wire
          ELSE LET hdr == [part |-> "headers", status |-> status, ctype |-> ctype,
                           length |-> IF content.some THEN Len(content.bytes) ELSE 0,
                           connection |-> "close", bytes |-> <<>>]
                   body == [part |-> "body", status |-> "", ctype |-> "",
                            length |-> 0, connection |-> "", bytes |-> content.bytes]
               IN  IF content.some /\ writeRes = "ok"
                   THEN wire \o <<hdr, body>>
                   ELSE Append(wire, hdr)

\* Mutant of HRead: Ok(0) is not told apart from Ok(n) and goes on to parse.
HReadIgnoreZero ==
    /\ hpc = "read"
    /\ hpc' = IF readRes \in {"data", "zero"} THEN "lines" ELSE "closed"
    /\ UNCHANGED <<poolVars, cpc, progVars, resVars, buffer, readRes, writeRes,
                   fileOk, calls, wire, resolverCalls, fileReads, parts, hfile>>

\* stream.read(&mut buffer): Ok(0) and Err return without a response.
HRead ==
    /\ hpc = "read"
    /\ hpc' = IF readRes = "data" THEN "lines" ELSE "closed"
    /\ UNCHANGED <<poolVars, cpc, progVars, resVars, buffer, readRes, writeRes,
                   fileOk, calls, wire, resolverCalls, fileReads, parts, hfile>>

\* request.lines().next(), then request_line.split_whitespace()
HLines ==
    /\ hpc = "lines"
    /\ IF FirstLine(buffer).ok
       THEN /\ parts' = split_whitespace(FirstLine(buffer).val)
            /\ hpc' = "validate"
            /\ UNCHANGED <<calls, wire>>
       ELSE /\ send_response("400 Bad Request", NoContent, "text/plain")
            /\ hpc' = "closed"
            /\ parts' = parts
    /\ UNCHANGED <<poolVars, cpc, progVars, resVars, buffer, readRes, writeRes,
                   fileOk, resolverCalls, fileReads, hfile>>

\* Mutant of HValidate: the version token is not looked at.
HValidateAnyVersion ==
    /\ hpc = "validate"
    /\ IF Part(parts, 1) # Ok(GET) \/ ~Part(parts, 2).ok
       THEN /\ send_response("400 Bad Request", NoContent, "text/plain")
            /\ hpc' = "closed"
       ELSE /\ hpc' = "method"
            /\ UNCHANGED <<calls, wire>>
    /\ UNCHANGED <<poolVars, cpc, progVars, resVars, buffer, readRes, writeRes,
                   fileOk, resolverCalls, fileReads, parts, hfile>>

\* "Validate request structure"
HValidate ==
    /\ hpc = "validate"
    /\ IF Part(parts, 1) # Ok(GET) \/ ~Part(parts, 2).ok \/ Part(parts, 3) # Ok(HTTP11)
       THEN /\ send_response("400 Bad Request", NoContent, "text/plain")
            /\ hpc' = "closed"
       ELSE /\ hpc' = "method"
            /\ UNCHANGED <<calls, wire>>
    /\ UNCHANGED <<poolVars, cpc, progVars, resVars, buffer, readRes, writeRes,
                   fileOk, resolverCalls, fileReads, parts, hfile>>

\* "Reject unsupported methods"
HMethod ==
    /\ hpc = "method"
    /\ IF Part(parts, 1) # Ok(GET)
       THEN /\ send_response("405 Method Not Allowed", NoContent, "text/plain")
            /\ hpc' = "closed"
       ELSE /\ hpc' = "sanitize"
            /\ UNCHANGED <<calls, wire>>
    /\ UNCHANGED <<poolVars, cpc, progVars, resVars, buffer, readRes, writeRes,
                   fileOk, resolverCalls, fileReads, parts, hfile>>

\* Mutant of HSanitize: a rejected path is answered 403 when the target
\* exists outside the root and 404 otherwise.
HSanitizeTelling ==
    /\ hpc = "sanitize"
    /\ resolverCalls' = resolverCalls + 1
    /\ LET r == sanitize_path(fsv, BaseDir, parts[2], IndexFile)
           c == canonicalize(fsv, TargetPath(BaseDir, parts[2], IndexFile))
       IN  IF r.some
           THEN /\ hfile' = r.path
                /\ hpc' = "serve"
                /\ UNCHANGED <<calls, wire>>
           ELSE /\ send_response(IF decode(parts[2]).ok /\ c.ok /\ ~starts_with(c.val, BaseDir)
                                 THEN "403 Forbidden" ELSE "404 Not Found",
                                 NoContent, "text/plain")
                /\ hpc' = "closed"
                /\ hfile' = hfile
    /\ UNCHANGED <<poolVars, cpc, progVars, resVars, buffer, readRes, writeRes,
                   fileOk, fileReads, parts>>

\* match sanitize_path(&base_dir, path, index_file): None is answered 404.
HSanitize ==
    /\ hpc = "sanitize"
    /\ resolverCalls' = resolverCalls + 1
    /\ LET r == sanitize_path(fsv, BaseDir, parts[2], IndexFile)
       IN  IF r.some
           THEN /\ hfile' = r.path
                /\ hpc' = "serve"
                /\ UNCHANGED <<calls, wire>>
           ELSE /\ send_response("404 Not Found", NoContent, "text/plain")
                /\ hpc' = "closed"
                /\ hfile' = hfile
    /\ UNCHANGED <<poolVars, cpc, progVars, resVars, buffer, readRes, writeRes,
                   fileOk, fileReads, parts>>

\* Mutant of HServe: a failed fs::read is served as an empty file.
HServeEmptyOnError ==
    /\ hpc = "serve"
    /\ fileReads' = fileReads + 1
    /\ send_response("200 OK",
                     SomeContent(IF fileOk THEN Contents(hfile) ELSE <<>>),
                     content_type(hfile))
    /\ hpc' = "closed"
    /\ UNCHANGED <<poolVars, cpc, progVars, resVars, buffer, readRes, writeRes,
                   fileOk, resolverCalls, parts, hfile>>

\* match fs::read(&file_path): 200 with the bytes, or 500.
HServe ==
    /\ hpc = "serve"
    /\ fileReads' = fileReads + 1
    /\ IF fileOk
       THEN send_response("200 OK", SomeContent(Contents(hfile)), content_type(hfile))
       ELSE send_response("500 Internal Server Error", NoContent, "text/plain")
    /\ hpc' = "closed"
    /\ UNCHANGED <<poolVars, cpc, progVars, resVars, buffer, readRes, writeRes,
                   fileOk, resolverCalls, parts, hfile>>

\* ----------------------------------- SpecHandler: one call of handle_client
SP == <<B.space>>
CRLF == <<B.cr, B.lf>>

\* Request buffers: an optional blank first line, then up to four tokens
\* (method, path, version, one more) and an optional line end.
GARBAGE == <<B.G, B.A, B.R, B.Bb, B.A, B.G, B.E>>
Methods  == { <<>>, GET, <<B.P, B.O, B.S, B.T>>, GARBAGE }
Versions == { <<>>, HTTP11, <<B.H, B.T, B.T, B.P, B.slash, B.one, B.dot, B.zero>> }
PathTokens ==
    { <<>>, <<B.slash>>, <<B.slash, B.f>>, <<B.slash, B.s>>,
      <<B.slash, B.dot, B.dot, B.slash, B.f>>,
      <<B.slash, B.percent, B.f, B.f>>, <<B.slash, B.s, B.slash, B.f>> }

Sep(a, b) == IF a = <<>> \/ b = <<>> THEN a \o b ELSE a \o SP \o b

Buffers ==
    { lead \o Sep(Sep(Sep(m, p), ver), more) \o tail :
        lead \in {<<>>, CRLF}, m \in Methods, p \in PathTokens, ver \in Versions,
        more \in {<<>>, <<B.f>>}, tail \in {<<>>, CRLF} } \ {<<>>}

HandlerInit ==
    /\ hpc = "read"
    /\ fsv \in FsKinds
    /\ \/ readRes = "data" /\ buffer \in Buffers
       \/ readRes \in {"zero", "err"} /\ buffer = <<>>
    /\ writeRes \in {"ok", "hdr_fail", "body_fail"}
    /\ fileOk \in BOOLEAN
    /\ calls = <<>>
    /\ wire = <<>>
    /\ resolverCalls = 0
    /\ fileReads = 0
    /\ parts = <<>>
    /\ hfile = <<>>

HandlerIdle ==
    /\ hpc = "closed"
    /\ readRes = "zero"
    /\ buffer = <<>>
    /\ writeRes = "ok"
    /\ fileOk = TRUE
    /\ calls = <<>>
    /\ wire = <<>>
    /\ resolverCalls = 0
    /\ fileReads = 0
    /\ parts = <<>>
    /\ hfile = <<>>

ReqIdle == fsv = "absent" /\ ResIdle /\ HandlerIdle

\* ------------------------------------------------------------ ThreadPool
\* ThreadPool::new(size): Workers spawned, all about to lock the receiver.
PoolInit ==
    /\ size \in 1..MaxWorkers
    /\ sender = "open"
    /\ queue = <<>>
    /\ lockHolder = 0
    /\ wpc = [w \in 1..size |-> "lock"]
    /\ wres = [w \in 1..size |-> NoJob]
    /\ jpc = [j \in Jobs |-> "new"]
    /\ runs = [j \in Jobs |-> 0]
    /\ logs = 0
    /\ dpc = "live"
    /\ joinIdx = 0
    /\ joined = {}
    /\ nextJob = 1
    /\ arg = NoJob
    /\ late = {}
    /\ dropSnap = {}

\* The Receiver lives in an Arc cloned into every Worker thread: it is
\* dropped when the last Worker thread ends.
ReceiverAlive == \E w \in Workers : wpc[w] # "done"

\* Mutant of execute: the job is sent twice.
executeTwice(job) ==
    /\ IF sender = "open" /\ ReceiverAlive
       THEN /\ queue' = Append(Append(queue, job), job)
            /\ jpc' = [jpc EXCEPT ![job] = "queued"]
       ELSE /\ jpc' = [jpc EXCEPT ![job] = "dropped"]
            /\ queue' = queue
    /\ logs' = logs
    /\ late' = IF sender = "closed" THEN late \cup {job} ELSE late

\* Mutant of execute: a bounded channel of capacity one, whose send waits
\* for room.
executeBounded(job) ==
    /\ sender = "open" => Len(queue) < 1
    /\ IF sender = "open"
       THEN /\ queue' = Append(queue, job)
            /\ jpc' = [jpc EXCEPT ![job] = "queued"]
       ELSE /\ jpc' = [jpc EXCEPT ![job] = "dropped"]
            /\ queue' = queue
    /\ logs' = logs
    /\ late' = IF sender = "closed" THEN late \cup {job} ELSE late

\* ThreadPool::execute: send on the channel if the sender is still there.
\* mpsc::channel() is unbounded, so send never waits; it fails only when the
\* Receiver has been dropped, and only that failure is logged.
execute(job) ==
    /\ IF sender = "open"
       THEN IF ReceiverAlive
            THEN /\ queue' = Append(queue, job)
                 /\ jpc' = [jpc EXCEPT ![job] = "queued"]
                 /\ logs' = logs
            ELSE /\ logs' = logs + 1
                 /\ jpc' = [jpc EXCEPT ![job] = "dropped"]
                 /\ queue' = queue
       ELSE /\ jpc' = [jpc EXCEPT ![job] = "dropped"]
            /\ UNCHANGED <<queue, logs>>
    /\ late' = IF sender = "closed" THEN late \cup {job} ELSE late

\* receiver.lock().unwrap(): blocks until the mutex is free.
WorkerLock(w) ==
    /\ wpc[w] = "lock"
    /\ lockHolder = 0
    /\ lockHolder' = w
    /\ wpc' = [wpc EXCEPT ![w] = "recv"]
    /\ UNCHANGED <<size, sender, queue, wres, jpc, runs, logs, dpc, joinIdx,
                   joined, nextJob, arg, cpc, progVars, late, dropSnap, reqVars>>

\* Mutant of WorkerRecv: closure is a message that only one Worker receives.
WorkerRecvCloseOnce(w) ==
    /\ wpc[w] = "recv"
    /\ \/ /\ queue # <<>>
          /\ wres' = [wres EXCEPT ![w] = Head(queue)]
          /\ queue' = Tail(queue)
       \/ /\ queue = <<>>
          /\ sender = "closed"
          /\ \A v \in Workers \ {w} : wres[v] # Closed
          /\ wres' = [wres EXCEPT ![w] = Closed]
          /\ queue' = queue
    /\ wpc' = [wpc EXCEPT ![w] = "unlock"]
    /\ UNCHANGED <<size, sender, lockHolder, jpc, runs, logs, dpc, joinIdx,
                   joined, nextJob, arg, cpc, progVars, late, dropSnap, reqVars>>

\* Mutant of WorkerRecv: closure is reported as soon as the sender is gone,
\* also with items still queued.
WorkerRecvEager(w) ==
    /\ wpc[w] = "recv"
    /\ \/ /\ queue # <<>>
          /\ sender = "open"
          /\ wres' = [wres EXCEPT ![w] = Head(queue)]
          /\ queue' = Tail(queue)
       \/ /\ sender = "closed"
          /\ wres' = [wres EXCEPT ![w] = Closed]
          /\ queue' = queue
    /\ wpc' = [wpc EXCEPT ![w] = "unlock"]
    /\ UNCHANGED <<size, sender, lockHolder, jpc, runs, logs, dpc, joinIdx,
                   joined, nextJob, arg, cpc, progVars, late, dropSnap, reqVars>>

\* .recv() with the guard held: an item if one is queued, Err once the
\* channel is empty and the sender is gone, and blocked otherwise.
WorkerRecv(w) ==
    /\ wpc[w] = "recv"
    /\ \/ /\ queue # <<>>
          /\ wres' = [wres EXCEPT ![w] = Head(queue)]
          /\ queue' = Tail(queue)
       \/ /\ queue = <<>>
          /\ sender = "closed"
          /\ wres' = [wres EXCEPT ![w] = Closed]
          /\ queue' = queue
    /\ wpc' = [wpc EXCEPT ![w] = "unlock"]
    /\ UNCHANGED <<size, sender, lockHolder, jpc, runs, logs, dpc, joinIdx,
                   joined, nextJob, arg, cpc, progVars, late, dropSnap, reqVars>>

\* Mutant of WorkerUnlock: the guard lives as long as the job (as in
\* `while let Ok(job) = receiver.lock().unwrap().recv() { job() }`).
WorkerUnlockAfterTask(w) ==
    /\ wpc[w] = "unlock"
    /\ lockHolder' = IF wres[w] = Closed THEN 0 ELSE lockHolder
    /\ IF wres[w] = Closed
       THEN /\ wpc' = [wpc EXCEPT ![w] = "done"]
            /\ UNCHANGED <<jpc, runs>>
       ELSE /\ wpc' = [wpc EXCEPT ![w] = "exec"]
            /\ runs' = [runs EXCEPT ![wres[w]] = @ + 1]
            /\ jpc' = [jpc EXCEPT ![wres[w]] = "run"]
    /\ UNCHANGED <<size, sender, queue, wres, logs, dpc, joinIdx, joined,
                   nextJob, arg, cpc, progVars, late, dropSnap, reqVars>>

\* End of the let statement: the MutexGuard temporary is dropped, then the
\* match on the result either starts the task or breaks out of the loop.
WorkerUnlock(w) ==
    /\ wpc[w] = "unlock"
    /\ lockHolder' = 0
    /\ IF wres[w] = Closed
       THEN /\ wpc' = [wpc EXCEPT ![w] = "done"]
            /\ UNCHANGED <<jpc, runs>>
       ELSE /\ wpc' = [wpc EXCEPT ![w] = "exec"]
            /\ runs' = [runs EXCEPT ![wres[w]] = @ + 1]
            /\ jpc' = [jpc EXCEPT ![wres[w]] = "run"]
    /\ UNCHANGED <<size, sender, queue, wres, logs, dpc, joinIdx, joined,
                   nextJob, arg, cpc, progVars, late, dropSnap, reqVars>>

\* task() returns and the Worker goes round its loop.
taskReturns(w) ==
    /\ jpc' = [jpc EXCEPT ![wres[w]] = "done"]
    /\ wpc' = [wpc EXCEPT ![w] = "lock"]
    /\ wres' = [wres EXCEPT ![w] = NoJob]

\* Drop for ThreadPool: self.sender.take()
dropTake ==
    /\ sender' = "closed"
    /\ dropSnap' = {j \in Jobs : jpc[j] \in {"queued", "run", "read", "write"}}
    /\ dpc' = "join"
    /\ joinIdx' = 1

\* Drop for ThreadPool: worker.thread.take().join() for the next Worker.
DropJoin ==
    /\ dpc = "join"
    /\ joinIdx <= size
    /\ wpc[joinIdx] = "done"
    /\ joined' = joined \cup {joinIdx}
    /\ joinIdx' = joinIdx + 1
    /\ UNCHANGED <<size, sender, queue, lockHolder, wpc, wres, jpc, runs, logs,
                   dpc, nextJob, arg, cpc, late, dropSnap, reqVars>>

\* --------------------------------------------- SpecPool: the pool alone
\* Mutant of JobFinish: the Worker goes back to the queue while the body it
\* started is still running (the task is not waited for).
JobFinishDetached(w) ==
    /\ wpc[w] = "exec"
    /\ jpc[wres[w]] = "run"
    /\ wpc' = [wpc EXCEPT ![w] = "lock"]
    /\ wres' = [wres EXCEPT ![w] = NoJob]
    /\ UNCHANGED <<size, sender, queue, lockHolder, jpc, runs, logs, dpc, joinIdx,
                   joined, nextJob, arg, cpc, progVars, late, dropSnap, reqVars>>

\* A job body that does its work and returns.
JobFinish(w) ==
    /\ wpc[w] = "exec"
    /\ jpc[wres[w]] = "run"
    /\ taskReturns(w)
    /\ UNCHANGED <<size, sender, queue, lockHolder, runs, logs, dpc, joinIdx,
                   joined, nextJob, arg, cpc, progVars, late, dropSnap, reqVars>>

\* The caller begins pool.execute(job) with a fresh job.
CallExecute ==
    /\ cpc = "idle"
    /\ nextJob <= MaxJobs
    /\ arg' = nextJob
    /\ nextJob' = nextJob + 1
    /\ cpc' = "call"
    /\ UNCHANGED <<size, sender, queue, lockHolder, wpc, wres, jpc, runs, logs,
                   dpc, joinIdx, joined, progVars, late, dropSnap, reqVars>>

\* The body of execute runs and the call returns.
ExecuteReturn ==
    /\ cpc = "call"
    /\ execute(arg)
    /\ cpc' = "idle"
    /\ arg' = NoJob
    /\ UNCHANGED <<size, sender, lockHolder, wpc, wres, runs, dpc, joinIdx,
                   joined, nextJob, progVars, dropSnap, reqVars>>

\* The caller lets the pool go out of scope.
CallDrop ==
    /\ cpc = "idle"
    /\ dpc = "live"
    /\ dropTake
    /\ UNCHANGED <<size, queue, lockHolder, wpc, wres, jpc, runs, logs, joined,
                   nextJob, arg, cpc, progVars, late, reqVars>>

PoolDropJoin == DropJoin /\ UNCHANGED progVars

\* The for loop over the Workers is over: drop returns.
PoolDropReturn ==
    /\ dpc = "join"
    /\ joinIdx > size
    /\ dpc' = "returned"
    /\ UNCHANGED <<size, sender, queue, lockHolder, wpc, wres, jpc, runs, logs,
                   joinIdx, joined, nextJob, arg, cpc, progVars, late, dropSnap, reqVars>>

ProgIdle ==
    /\ running = TRUE
    /\ sigPc = "wait"
    /\ sigCount = 0
    /\ mainPc = "check"
    /\ conn = [j \in Jobs |-> "silent"]
    /\ resp = [j \in Jobs |-> 0]
    /\ attemptsAfter = 0
    /\ submitsAfter = 0

InitPool == PoolInit /\ cpc = "idle" /\ ProgIdle /\ ReqIdle

WorkerStep(w) == WorkerLock(w) \/ WorkerRecv(w) \/ WorkerUnlock(w)

NextPool ==
    \/ CallExecute
    \/ ExecuteReturn
    \/ CallDrop
    \/ PoolDropJoin
    \/ PoolDropReturn
    \/ \E w \in Workers : WorkerLock(w)
    \/ \E w \in Workers : WorkerRecv(w)
    \/ \E w \in Workers : WorkerUnlock(w)
    \/ \E w \in Workers : JobFinish(w)

SpecPool == InitPool /\ [][NextPool]_vars

FairSpecPool ==
    /\ SpecPool
    /\ WF_vars(ExecuteReturn)
    /\ WF_vars(PoolDropJoin)
    /\ WF_vars(PoolDropReturn)
    /\ \A w \in 1..MaxWorkers :
          /\ WF_vars(w \in Workers /\ WorkerLock(w))
          /\ WF_vars(w \in Workers /\ WorkerRecv(w))
          /\ WF_vars(w \in Workers /\ WorkerUnlock(w))
          /\ WF_vars(w \in Workers /\ JobFinish(w))

\* ------------------------------------------------ Spec: the whole program
\* Mutant of MainCheck: when the load gives false the process exits at once
\* (std::process::exit), without running the pool's drop.
MainCheckExitAtOnce ==
    /\ mainPc = "check"
    /\ mainPc' = IF running THEN "accept" ELSE "exited"
    /\ UNCHANGED <<poolVars, cpc, running, sigPc, sigCount, conn, resp,
                   attemptsAfter, submitsAfter, reqVars>>

\* main.rs: while running.load(Relaxed)
MainCheck ==
    /\ mainPc = "check"
    /\ mainPc' = IF running THEN "accept" ELSE "drop"
    /\ UNCHANGED <<poolVars, cpc, running, sigPc, sigCount, conn, resp,
                   attemptsAfter, submitsAfter, reqVars>>

Bump(n) == IF n < CountCap THEN n + 1 ELSE n

\* listener.accept() returns Ok((stream, _)): a client had connected.
MainAcceptOk ==
    /\ mainPc = "accept"
    /\ nextJob <= MaxConns
    /\ arg' = nextJob
    /\ nextJob' = nextJob + 1
    /\ mainPc' = "execute"
    /\ attemptsAfter' = IF running THEN attemptsAfter ELSE Bump(attemptsAfter)
    /\ UNCHANGED <<size, sender, queue, lockHolder, wpc, wres, jpc, runs, logs,
                   dpc, joinIdx, joined, late, dropSnap, cpc, running, sigPc,
                   sigCount, conn, resp, submitsAfter, reqVars>>

\* listener.accept() returns Err(WouldBlock): nothing pending, main sleeps.
MainAcceptWouldBlock ==
    /\ mainPc = "accept"
    /\ mainPc' = "sleep"
    /\ attemptsAfter' = IF running THEN attemptsAfter ELSE Bump(attemptsAfter)
    /\ UNCHANGED <<poolVars, cpc, running, sigPc, sigCount, conn, resp, submitsAfter, reqVars>>

\* Mutant of MainAcceptErr: the error is returned from main with `?`.
MainAcceptErrFatal ==
    /\ mainPc = "accept"
    /\ mainPc' = "drop"
    /\ attemptsAfter' = IF running THEN attemptsAfter ELSE Bump(attemptsAfter)
    /\ UNCHANGED <<poolVars, cpc, running, sigPc, sigCount, conn, resp, submitsAfter, reqVars>>

\* listener.accept() returns another error: logged, next iteration.
MainAcceptErr ==
    /\ mainPc = "accept"
    /\ mainPc' = "check"
    /\ attemptsAfter' = IF running THEN attemptsAfter ELSE Bump(attemptsAfter)
    /\ UNCHANGED <<poolVars, cpc, running, sigPc, sigCount, conn, resp, submitsAfter, reqVars>>

\* pool.execute(move || handle_client(stream, base_dir, &index_file))
MainExecute ==
    /\ mainPc = "execute"
    /\ execute(arg)
    /\ arg' = NoJob
    /\ mainPc' = "check"
    /\ submitsAfter' = IF running THEN submitsAfter ELSE Bump(submitsAfter)
    /\ UNCHANGED <<size, sender, lockHolder, wpc, wres, runs, dpc, joinIdx,
                   joined, nextJob, dropSnap, cpc, running, sigPc, sigCount,
                   conn, resp, attemptsAfter, reqVars>>

\* Mutant of MainSleep: after the sleep the accept is retried without
\* loading the flag again.
MainSleepNoCheck ==
    /\ mainPc = "sleep"
    /\ mainPc' = "accept"
    /\ UNCHANGED <<poolVars, cpc, running, sigPc, sigCount, conn, resp,
                   attemptsAfter, submitsAfter, reqVars>>

\* thread::sleep(100 ms); continue
MainSleep ==
    /\ mainPc = "sleep"
    /\ mainPc' = "check"
    /\ UNCHANGED <<poolVars, cpc, running, sigPc, sigCount, conn, resp,
                   attemptsAfter, submitsAfter, reqVars>>

\* main returns Ok(()): its locals are dropped, the pool among them.
MainDrop ==
    /\ mainPc = "drop"
    /\ dropTake
    /\ mainPc' = "join"
    /\ UNCHANGED <<size, queue, lockHolder, wpc, wres, jpc, runs, logs, joined,
                   nextJob, arg, late, cpc, running, sigPc, sigCount, conn,
                   resp, attemptsAfter, submitsAfter, reqVars>>

MainJoin ==
    /\ mainPc = "join"
    /\ DropJoin
    /\ UNCHANGED progVars

\* Every Worker is joined: drop returns and the process exits with Ok.
MainExit ==
    /\ mainPc = "join"
    /\ joinIdx > size
    /\ dpc' = "returned"
    /\ mainPc' = "exited"
    /\ UNCHANGED <<size, sender, queue, lockHolder, wpc, wres, jpc, runs, logs,
                   joinIdx, joined, nextJob, arg, late, dropSnap, cpc, running,
                   sigPc, sigCount, conn, resp, attemptsAfter, submitsAfter, reqVars>>

\* The environment delivers a SIGTERM; the first one wakes signals.forever().
SignalArrive ==
    /\ mainPc # "exited"
    /\ sigCount < MaxSignals
    /\ sigCount' = sigCount + 1
    /\ sigPc' = IF sigPc = "wait" THEN "woken" ELSE sigPc
    /\ UNCHANGED <<poolVars, cpc, running, mainPc, conn, resp, attemptsAfter,
                   submitsAfter, reqVars>>

\* Mutant of CoordStore: no break, the thread goes back to signals.forever().
CoordStoreKeepsListening ==
    /\ sigPc = "woken"
    /\ running' = FALSE
    /\ sigPc' = "wait"
    /\ UNCHANGED <<poolVars, cpc, sigCount, mainPc, conn, resp, attemptsAfter,
                   submitsAfter, reqVars>>

\* The signal thread: shutdown_flag.store(false, Relaxed); break
CoordStore ==
    /\ sigPc = "woken"
    /\ running' = FALSE
    /\ sigPc' = "done"
    /\ UNCHANGED <<poolVars, cpc, sigCount, mainPc, conn, resp, attemptsAfter,
                   submitsAfter, reqVars>>

\* What the peer of a connection does while the handler waits in read: send
\* its request, close its end, or reset the connection.  (Bytes that arrived
\* earlier are seen by the code at the same place, when read returns.)
ClientActs(j, what) ==
    /\ jpc[j] = "run"
    /\ conn[j] = "silent"
    /\ conn' = [conn EXCEPT ![j] = what]
    /\ UNCHANGED <<poolVars, cpc, running, sigPc, sigCount, mainPc, resp,
                   attemptsAfter, submitsAfter, reqVars>>

ClientSend(j)  == ClientActs(j, "sent")
ClientClose(j) == ClientActs(j, "eof")
ClientReset(j) == ClientActs(j, "err")

\* handle_client: stream.read(&mut buffer) on the accepted (blocking) stream
\* returns only when the peer has sent bytes, closed, or the read failed.
\* Ok(0) and Err return at once; Ok(n) goes on to parse and respond.
HandlerRead(w) ==
    /\ wpc[w] = "exec"
    /\ jpc[wres[w]] = "run"
    /\ conn[wres[w]] # "silent"
    /\ IF conn[wres[w]] = "sent"
       THEN /\ jpc' = [jpc EXCEPT ![wres[w]] = "write"]
            /\ UNCHANGED <<wpc, wres, conn>>
       ELSE /\ taskReturns(w)
            /\ conn' = [conn EXCEPT ![wres[w]] = "closed"]
    /\ UNCHANGED <<size, sender, queue, lockHolder, runs, logs, dpc, joinIdx,
                   joined, nextJob, arg, late, dropSnap, cpc, running, sigPc,
                   sigCount, mainPc, resp, attemptsAfter, submitsAfter, reqVars>>

\* handle_client after a successful read: every path calls send_response
\* once and returns, which drops the stream.
HandlerRespond(w) ==
    /\ wpc[w] = "exec"
    /\ jpc[wres[w]] = "write"
    /\ resp' = [resp EXCEPT ![wres[w]] = @ + 1]
    /\ conn' = [conn EXCEPT ![wres[w]] = "closed"]
    /\ taskReturns(w)
    /\ UNCHANGED <<size, sender, queue, lockHolder, runs, logs, dpc, joinIdx,
                   joined, nextJob, arg, late, dropSnap, cpc, running, sigPc,
                   sigCount, mainPc, attemptsAfter, submitsAfter, reqVars>>

Init == PoolInit /\ cpc = "idle" /\ ProgIdle /\ ReqIdle

MainAccept == MainAcceptOk \/ MainAcceptWouldBlock \/ MainAcceptErr

Next ==
    \/ MainCheck
    \/ MainAcceptOk
    \/ MainAcceptWouldBlock
    \/ MainAcceptErr
    \/ MainExecute
    \/ MainSleep
    \/ MainDrop
    \/ MainJoin
    \/ MainExit
    \/ SignalArrive
    \/ CoordStore
    \/ \E j \in Jobs : ClientSend(j)
    \/ \E j \in Jobs : ClientClose(j)
    \/ \E j \in Jobs : ClientReset(j)
    \/ \E w \in Workers : WorkerLock(w)
    \/ \E w \in Workers : WorkerRecv(w)
    \/ \E w \in Workers : WorkerUnlock(w)
    \/ \E w \in Workers : HandlerRead(w)
    \/ \E w \in Workers : HandlerRespond(w)

Spec == Init /\ [][Next]_vars

\* The operating system schedules every thread of the process; nothing
\* obliges a client to send or a signal to arrive.
FairSpec ==
    /\ Spec
    /\ WF_vars(MainCheck)
    /\ WF_vars(MainAccept)
    /\ WF_vars(MainExecute)
    /\ WF_vars(MainSleep)
    /\ WF_vars(MainDrop)
    /\ WF_vars(MainJoin)
    /\ WF_vars(MainExit)
    /\ WF_vars(CoordStore)
    /\ \A w \in 1..MaxWorkers :
          /\ WF_vars(w \in Workers /\ WorkerLock(w))
          /\ WF_vars(w \in Workers /\ WorkerRecv(w))
          /\ WF_vars(w \in Workers /\ WorkerUnlock(w))
          /\ WF_vars(w \in Workers /\ HandlerRead(w))
          /\ WF_vars(w \in Workers /\ HandlerRespond(w))

\* ------------------------------------------------ SpecResolve, assembled
InitResolve ==
    /\ PoolInit /\ size = 1 /\ cpc = "idle" /\ ProgIdle
    /\ ResInit /\ HandlerIdle

NextResolve == Resolve

SpecResolve == InitResolve /\ [][NextResolve]_vars

\* ------------------------------------------------ SpecHandler, assembled
InitHandler ==
    /\ PoolInit /\ size = 1 /\ cpc = "idle" /\ ProgIdle
    /\ ResIdle /\ HandlerInit

NextHandler ==
    \/ HRead
    \/ HLines
    \/ HValidate
    \/ HMethod
    \/ HSanitize
    \/ HServe

SpecHandler == InitHandler /\ [][NextHandler]_vars

\* ------------ SpecServe: the pool with handle_client as the body of a job
\* The steps of handle_client are followed for one connection at a time; the
\* body of a job that runs beside it is taken whole (JobFinish).
LF == <<B.lf>>

\* Request buffers of served connections, one for each kind of answer.
ServeBuffers ==
    { GARBAGE,
      Sep(Sep(GET, <<B.slash, B.f>>), HTTP11) \o CRLF,
      Sep(Sep(GET, <<B.slash, B.s>>), HTTP11) \o CRLF,
      Sep(Sep(<<B.P, B.O, B.S, B.T>>, <<B.slash>>), HTTP11) \o CRLF,
      LF }

\* task() is called (structs.rs) and handle_client begins on its stream,
\* whose peer and whose files are what they are.
TaskStart(w) ==
    /\ wpc[w] = "exec"
    /\ jpc[wres[w]] = "run"
    /\ \A j \in Jobs : jpc[j] # "read"
    /\ jpc' = [jpc EXCEPT ![wres[w]] = "read"]
    /\ hpc' = "read"
    /\ fsv' = "absent"
    /\ \/ readRes' = "data" /\ buffer' \in ServeBuffers
       \/ readRes' \in {"zero", "err"} /\ buffer' = <<>>
    /\ writeRes' \in {"ok", "hdr_fail", "body_fail"}
    /\ fileOk' \in BOOLEAN
    /\ calls' = <<>>
    /\ wire' = <<>>
    /\ resolverCalls' = 0
    /\ fileReads' = 0
    /\ parts' = <<>>
    /\ hfile' = <<>>
    /\ UNCHANGED <<size, sender, queue, lockHolder, wpc, wres, runs, logs, dpc,
                   joinIdx, joined, nextJob, arg, late, dropSnap, cpc, progVars,
                   requested, rpc, result>>

\* The locals of handle_client are gone and its stream is dropped.
HandlerGone ==
    /\ readRes' = "zero"
    /\ buffer' = <<>>
    /\ writeRes' = "ok"
    /\ fileOk' = TRUE
    /\ calls' = <<>>
    /\ wire' = <<>>
    /\ resolverCalls' = 0
    /\ fileReads' = 0
    /\ parts' = <<>>
    /\ hfile' = <<>>
    /\ UNCHANGED <<hpc, resVars>>

\* Mutant of TaskReturn: a handler that did not answer 200 unwinds the
\* Worker's thread instead of returning.
TaskReturnUnwinds(w) ==
    /\ wpc[w] = "exec"
    /\ jpc[wres[w]] = "read"
    /\ hpc = "closed"
    /\ IF calls # <<>> /\ calls[1].status = "200 OK" /\ writeRes = "ok"
       THEN taskReturns(w)
       ELSE /\ jpc' = [jpc EXCEPT ![wres[w]] = "done"]
            /\ wpc' = [wpc EXCEPT ![w] = "done"]
            /\ wres' = [wres EXCEPT ![w] = NoJob]
    /\ HandlerGone
    /\ UNCHANGED <<size, sender, queue, lockHolder, runs, logs, dpc, joinIdx,
                   joined, nextJob, arg, late, dropSnap, cpc, progVars>>

\* handle_client returns (), whatever it did, and so does task().
TaskReturn(w) ==
    /\ wpc[w] = "exec"
    /\ jpc[wres[w]] = "read"
    /\ hpc = "closed"
    /\ taskReturns(w)
    /\ HandlerGone
    /\ UNCHANGED <<size, sender, queue, lockHolder, runs, logs, dpc, joinIdx,
                   joined, nextJob, arg, late, dropSnap, cpc, progVars>>

InitServe == InitPool

NextServe ==
    \/ CallExecute
    \/ ExecuteReturn
    \/ CallDrop
    \/ PoolDropJoin
    \/ PoolDropReturn
    \/ \E w \in Workers : WorkerLock(w)
    \/ \E w \in Workers : WorkerRecv(w)
    \/ \E w \in Workers : WorkerUnlock(w)
    \/ \E w \in Workers : JobFinish(w)
    \/ \E w \in Workers : TaskStart(w)
    \/ HRead
    \/ HLines
    \/ HValidate
    \/ HMethod
    \/ HSanitize
    \/ HServe
    \/ \E w \in Workers : TaskReturn(w)

SpecServe == InitServe /\ [][NextServe]_vars

\* ------------------------------------------------------ claims on the pool
Executing == {j \in Jobs : jpc[j] \in {"run", "read", "write"}}
Finished  == {j \in Jobs : jpc[j] = "done"}
Sent      == {j \in Jobs : jpc[j] \in {"queued", "run", "read", "write", "done"}}
InQueue(j) == \E i \in 1..Len(queue) : queue[i] = j
Copies(j) == Cardinality({i \in 1..Len(queue) : queue[i] = j})
             + Cardinality({w \in Workers : wres[w] = j})

\* C1 (safety part): a job that execute sent while the sender was open exists
\* in exactly one place (the queue, or one Worker's hands) until it is done,
\* and its body is started at most once, and exactly once by the time it
\* runs or is done; it is never put back on the queue.
C1_Safety ==
    \A j \in Jobs :
        /\ runs[j] <= 1
        /\ jpc[j] = "queued" => (Copies(j) = 1 /\ runs[j] = 0)
        /\ j \in Executing => (Copies(j) = 1 /\ runs[j] = 1 /\ ~InQueue(j))
        /\ jpc[j] = "done" => (Copies(j) = 0 /\ runs[j] = 1)

\* C1: every job submitted through execute while the sender is open is
\* delivered to exactly one Worker and run exactly once, and with fair
\* scheduling and terminating job bodies it is eventually run to the end,
\* for pool sizes 1..MaxWorkers and up to MaxJobs jobs (more jobs than Workers).
C1_ExactlyOnceEventually ==
    /\ [] C1_Safety
    /\ \A j \in Jobs : (jpc[j] = "queued") ~> (jpc[j] = "done" /\ runs[j] = 1)

\* Witness for C1: three jobs were run to the end by a pool of one Worker.
C1_Witness ==
    /\ size = 1
    /\ \A j \in Jobs : jpc[j] = "done" /\ runs[j] = 1

\* C2: at most `size` job bodies execute at once, and every executing body
\* belongs to a Worker that is inside task() with that job and no other.
C2_AtMostMExecuting ==
    /\ Cardinality(Executing) <= size
    /\ \A j \in Executing :
          Cardinality({w \in Workers : wpc[w] = "exec" /\ wres[w] = j}) = 1
    /\ \A w \in Workers : wpc[w] = "exec" => wres[w] \in Executing

\* Witness for C2: both Workers of a pool of two execute while a third job waits.
C2_Witness ==
    /\ size = 2
    /\ Cardinality(Executing) = 2
    /\ Len(queue) = 1

\* C3: drop closes the sender before it joins any Worker, and it has not
\* returned unless every job sent before it began (queued or in flight at that
\* moment included) is finished and every Worker has ended and been joined.
C3_DropDrains ==
    /\ (dpc # "live" \/ joined # {}) => sender = "closed"
    /\ dpc = "returned" =>
          /\ dropSnap \subseteq Finished
          /\ Sent \subseteq Finished
          /\ queue = <<>>
          /\ \A w \in Workers : wpc[w] = "done"
          /\ joined = Workers

\* Witness for C3: drop returned although more jobs than Workers were
\* unfinished when it began (so some were still queued).
C3_Witness ==
    /\ dpc = "returned"
    /\ Cardinality(dropSnap) > size
    /\ dropSnap \subseteq Finished

\* C4 as stated: a job passed to execute after the sender is gone is never
\* queued or run, execute writes a log line for each such job, and a call of
\* execute can always return (it never waits).
C4_Original ==
    /\ \A j \in late : runs[j] = 0 /\ ~InQueue(j) /\ jpc[j] = "dropped"
    /\ logs = Cardinality(late)
    /\ cpc = "call" => ENABLED ExecuteReturn

\* C4 amended: such a job is never queued or run, it is discarded without a
\* log line (the line is written only when send fails), and a call of execute
\* can always return, whatever the queue length and whatever the Workers do.
C4_DiscardSilently ==
    /\ \A j \in late : runs[j] = 0 /\ ~InQueue(j) /\ jpc[j] = "dropped"
    /\ logs = 0
    /\ cpc = "call" => ENABLED ExecuteReturn

\* Witness for C4: a job was passed to execute after the sender was taken,
\* after an earlier call returned with every Worker busy and a job queued.
C4_Witness ==
    /\ late # {}
    /\ Sent # {}
    /\ cpc = "idle"

\* ------------------------------------------------- claims on the program
Stopping == mainPc \in {"drop", "join", "exited"}

\* C5: once the flag is cleared the Accept Loop finishes at most the
\* iteration in progress: at most one accept() is begun and at most one job
\* is submitted after the store, and with main scheduled the loop is left for
\* the pool's drop.
C5_StopsWithinOneIteration ==
    /\ [](attemptsAfter <= 1 /\ submitsAfter <= 1)
    /\ (~running) ~> Stopping

\* Witness for C5: the store fell between the load and the accept; that
\* iteration accepted and submitted one connection and the loop then ended.
C5_Witness ==
    /\ ~running
    /\ attemptsAfter = 1
    /\ submitsAfter = 1
    /\ mainPc = "drop"

\* C6 as stated: after the flag is cleared the process eventually exits with
\* every Worker ended and joined, whatever the connections were doing.
C6_Original ==
    (~running) ~>
        (/\ mainPc = "exited"
         /\ \A w \in Workers : wpc[w] = "done"
         /\ joined = Workers)

\* ------------------------------------------------ claims on sanitize_path
RootPath == << <<B.r>> >>

\* Every piece of p names a real entry, none is a link, "." or "..", and all
\* but the last are directories.
IsCanonicalPath(v, p) ==
    \A k \in 1..Len(p) :
        /\ p[k] \notin {<<>>, <<B.dot>>, <<B.dot, B.dot>>}
        /\ NodeKind(v, SubSeq(p, 1, k)) \notin {"none", "link"}
        /\ k < Len(p) => NodeKind(v, SubSeq(p, 1, k)) = "dir"

UnderRoot(p) == Len(p) > Len(RootPath) /\ SubSeq(p, 1, Len(RootPath)) = RootPath

\* C7: with the canonical root /r, a path returned by sanitize_path is
\* canonical, lies under the root and is a regular file; and when the request
\* decodes, none is returned if the target does not canonicalize (it does not
\* exist), or canonicalizes outside the root, or to something that is not a
\* regular file.
C7_OnlyRegularFilesUnderRoot ==
    rpc = "returned" =>
        /\ result.some =>
              /\ IsCanonicalPath(fsv, result.path)
              /\ UnderRoot(result.path)
              /\ NodeKind(fsv, result.path) = "file"
        /\ decode(requested).ok =>
              LET c == canonicalize(fsv, TargetPath(BaseDir, requested, IndexFile))
              IN  (~c.ok \/ ~UnderRoot(c.val) \/ NodeKind(fsv, c.val) # "file")
                     => ~result.some

\* Witness for C7: "s", a link to a file in the root, resolves to the file
\* itself, not to the link.
C7_Witness ==
    /\ rpc = "returned"
    /\ fsv = "toInside"
    /\ requested = <<B.s>>
    /\ result = Some(<< <<B.r>>, <<B.f>> >>)

\* ------------------------------------------------ claims on handle_client
Tokens == IF FirstLine(buffer).ok THEN split_whitespace(FirstLine(buffer).val) ELSE <<>>

Headers(status) ==
    [part |-> "headers", status |-> status, ctype |-> "text/plain", length |-> 0,
     connection |-> "close", bytes |-> <<>>]

\* What an empty-bodied answer leaves on the connection.
Answered(status) ==
    /\ calls = <<[status |-> status, content |-> NoContent, ctype |-> "text/plain"]>>
    /\ wire = IF writeRes = "hdr_fail" THEN <<>> ELSE <<Headers(status)>>

\* C8: a well-formed request whose path sanitize_path rejects is answered 404,
\* and what is written does not depend on the file system or on the path: it
\* is one fixed header block (nothing when the write fails), so two runs that
\* differ only in the reason for rejection write the same bytes.
C8_RejectionsAllLookAlike ==
    (/\ hpc = "closed"
     /\ readRes = "data"
     /\ Part(Tokens, 1) = Ok(GET) /\ Part(Tokens, 2).ok /\ Part(Tokens, 3) = Ok(HTTP11)
     /\ ~sanitize_path(fsv, BaseDir, Tokens[2], IndexFile).some)
        => /\ Answered("404 Not Found")
           /\ fileReads = 0

\* Witness for C8: a link out of the root was requested and answered 404.
C8_Witness ==
    /\ hpc = "closed"
    /\ fsv = "toOutside"
    /\ Tokens = <<GET, <<B.slash, B.s>>, HTTP11>>
    /\ wire = <<Headers("404 Not Found")>>

\* C9: a request line without a path token, or whose third token is not
\* HTTP/1.1, never reaches sanitize_path or fs::read, and is answered 400.
C9_MalformedIs400 ==
    (readRes = "data" /\ (~Part(Tokens, 2).ok \/ Part(Tokens, 3) # Ok(HTTP11)))
        => /\ resolverCalls = 0
           /\ fileReads = 0
           /\ hpc \notin {"method", "sanitize", "serve"}
           /\ hpc = "closed" => Answered("400 Bad Request")

\* Witness for C9: the line "GARBAGE" was answered 400.
C9_Witness ==
    /\ hpc = "closed"
    /\ buffer = GARBAGE
    /\ wire = <<Headers("400 Bad Request")>>

\* C10 as stated: a request with a method other than GET, a path and the
\* version HTTP/1.1 is answered 405.
C10_Original ==
    (/\ hpc = "closed"
     /\ readRes = "data"
     /\ Part(Tokens, 1).ok /\ Part(Tokens, 1) # Ok(GET)
     /\ Part(Tokens, 2).ok /\ Part(Tokens, 3) = Ok(HTTP11))
        => Answered("405 Method Not Allowed")

\* C11 (states): at most one call of send_response is made, and it is the
\* last thing the run does; a run that has returned made exactly one call
\* when read returned bytes and none when read returned Ok(0) or Err; at most
\* one header block is written and it says "Connection: close".
C11_Safety ==
    /\ Len(calls) <= 1
    /\ calls # <<>> => hpc = "closed"
    /\ hpc = "closed" => Len(calls) = IF readRes = "data" THEN 1 ELSE 0
    /\ readRes # "data" => wire = <<>>
    /\ Cardinality({k \in 1..Len(wire) : wire[k].part = "headers"}) <= 1
    /\ \A k \in 1..Len(wire) :
          wire[k].part = "headers" => (k = 1 /\ wire[k].connection = "close")

\* Position of a run in handle_client, counted from its return.
StepsLeft ==
    CASE hpc = "read" -> 6 [] hpc = "lines" -> 5 [] hpc = "validate" -> 4
      [] hpc = "method" -> 3 [] hpc = "sanitize" -> 2 [] hpc = "serve" -> 1
      [] OTHER -> 0

\* A run that has not returned is never stuck: the step at its position can
\* be taken, and path.unwrap() finds a path token (it cannot panic).
C11_CanStep ==
    /\ hpc = "read" => ENABLED HRead
    /\ hpc = "lines" => readRes = "data"
    /\ hpc = "validate" => ENABLED HValidate
    /\ hpc = "method" => (ENABLED HMethod /\ Part(parts, 2).ok)
    /\ hpc = "sanitize" => Part(parts, 2).ok
    /\ hpc = "serve" => ENABLED HServe

\* C11: every run of handle_client whose read has returned ends with the
\* stream dropped (the connection closed) after at most one response: exactly
\* one when read returned at least one byte, none when it returned zero bytes
\* or failed.  The run can always take its next step and every step brings
\* it nearer to the return (there is no loop), stream.read is never called a
\* second time, and nothing happens on the connection after the response.
C11_OneResponseThenClosed ==
    /\ [] C11_Safety
    /\ [] C11_CanStep
    /\ [][StepsLeft' < StepsLeft]_vars
    /\ [][hpc # "read" => hpc' # "read"]_vars
    /\ [][calls # <<>> => UNCHANGED <<calls, wire>>]_vars

\* Witness for C11: a run read a request, wrote one 200 response (headers and
\* body) and returned.
C11_Witness ==
    /\ hpc = "closed"
    /\ readRes = "data"
    /\ Len(calls) = 1
    /\ calls[1].status = "200 OK"
    /\ Len(wire) = 2

\* ------------------------------------------- further claims on the pool
\* Workers inside `receiver.lock().unwrap().recv()` with the guard in hand.
Holding == {w \in Workers : wpc[w] \in {"recv", "unlock"}}

\* C16: the receiver's mutex is held by at most one Worker, and by a Worker
\* exactly while it is inside recv() or about to end the let statement; a
\* Worker whose job body runs does not hold it.  So while jobs are queued and
\* some Worker is not executing, a Worker step towards the next job (lock,
\* recv or unlock-and-start) can be taken, whatever the executing Workers do.
C16_LockOnlyAroundRecv ==
    /\ Cardinality(Holding) <= 1
    /\ \A w \in Workers : lockHolder = w <=> w \in Holding
    /\ lockHolder # 0 => lockHolder \in Workers
    /\ \A w \in Workers : wpc[w] = "exec" => lockHolder # w
    /\ (queue # <<>> /\ \E w \in Workers : wpc[w] \in {"lock", "recv", "unlock"})
          => \E w \in Workers : ENABLED WorkerStep(w)
    /\ \A w \in Workers :
          (wpc[w] = "lock" /\ Holding = {}) => ENABLED WorkerLock(w)

\* Witness for C16: while Worker 1 executes a job, Worker 2 has taken the
\* next one from the queue and is about to start it.
C16_Witness ==
    /\ size = 2
    /\ wpc[1] = "exec"
    /\ wpc[2] = "unlock"
    /\ lockHolder = 2
    /\ wres[2] \in Jobs

\* What the handler in progress did, once it is about to return.
Outcome ==
    IF calls = <<>> THEN (IF readRes = "err" THEN "read error" ELSE "peer closed")
    ELSE IF writeRes # "ok" THEN "write failure"
    ELSE calls[1].status

\* C17: no Worker ends while the sender is open; a Worker ends only from
\* the Err branch of its match, which recv() takes only with the queue empty
\* and the sender gone; when handle_client returns, whatever its outcome, its
\* Worker is back at the lock for the next job; and the steps and the return
\* of a handler touch nothing of the pool but its own job and its own Worker.
C17_ErrorsStayInTheHandler ==
    /\ [] (sender = "open" => \A w \in Workers : wpc[w] # "done")
    /\ [][\A w \in Workers :
             (wpc[w] # "done" /\ wpc'[w] = "done") =>
                (wpc[w] = "unlock" /\ wres[w] = Closed /\ queue = <<>> /\ sender = "closed")]_vars
    /\ [][\A w \in Workers :
             (wpc[w] = "exec" /\ wpc'[w] # "exec") =>
                (wpc'[w] = "lock" /\ jpc'[wres[w]] = "done")]_vars
    /\ [][hVars' # hVars =>
             /\ UNCHANGED <<size, sender, queue, lockHolder, runs, logs, dpc,
                            joinIdx, joined, nextJob, arg, cpc>>
             /\ \E w \in Workers :
                   /\ wpc[w] = "exec"
                   /\ \A v \in Workers \ {w} : wpc'[v] = wpc[v] /\ wres'[v] = wres[v]
                   /\ \A j \in Jobs \ {wres[w]} : jpc'[j] = jpc[j]]_vars

\* Witness for C17: the one Worker of a pool handled job 1, and now the
\* handler of job 2 is about to return after a 500 whose write failed, with
\* job 3 waiting and the sender open.
C17_Witness ==
    /\ size = 1
    /\ sender = "open"
    /\ jpc[1] = "done"
    /\ wpc[1] = "exec" /\ wres[1] = 2 /\ jpc[2] = "read"
    /\ hpc = "closed"
    /\ calls # <<>> /\ calls[1].status = "500 Internal Server Error"
    /\ Outcome = "write failure"
    /\ queue = <<3>>

\* C20: once the sender is taken, and with the threads scheduled fairly and
\* job bodies that end, every Worker of the pool ends: the Worker inside
\* recv() gets Err when the queue is empty, gives the lock back as it leaves,
\* and the next one does the same.  A Worker that ends holds no lock and
\* leaves nothing queued, and while a Worker can still run some step of a
\* Worker or of a job body is enabled (nobody waits for a lock that is never
\* released).
C20_ShutdownNeverDeadlocks ==
    /\ (sender = "closed") ~> (\A w \in Workers : wpc[w] = "done")
    /\ [] (\A w \in Workers : wpc[w] = "done" => (lockHolder # w /\ queue = <<>>))
    /\ [] ((sender = "closed" /\ \E w \in Workers : wpc[w] # "done")
              => \E w \in Workers : ENABLED (WorkerStep(w) \/ JobFinish(w)))
    /\ [][\A w \in Workers :
             (wpc[w] # "done" /\ wpc'[w] = "done") =>
                (lockHolder = w /\ lockHolder' = 0 /\ queue = <<>> /\ sender = "closed")]_vars

\* Witness for C20: the sender was taken with both Workers of a pool busy
\* and a job queued; both Workers have ended, with the lock free.
C20_Witness ==
    /\ size = 2
    /\ sender = "closed"
    /\ Cardinality(dropSnap) = 3
    /\ \A w \in Workers : wpc[w] = "done"
    /\ lockHolder = 0
    /\ dpc = "join"

\* ------------------------------------------ further claims on the program
\* C14: the flag is true at the start and until the signal thread's store;
\* every change of it is a step of the signal thread, from true to false;
\* once false it stays false; after the store the signal thread has left its
\* loop for good, so a later SIGTERM leads to no further store.
C14_FlagWrittenOnce ==
    /\ running = TRUE
    /\ [] (running <=> sigPc # "done")
    /\ [] (sigPc = "done" => ~ENABLED CoordStore)
    /\ [][running' # running => (running /\ ~running' /\ CoordStore)]_vars
    /\ [][~running => ~running']_vars
    /\ [][sigPc = "done" => sigPc' = "done"]_vars

\* Witness for C14: a second SIGTERM arrived after the store, with main
\* still in its loop and a Worker running a job.
C14_Witness ==
    /\ sigCount = 2
    /\ sigPc = "done"
    /\ ~running
    /\ mainPc = "accept"
    /\ \E w \in Workers : wpc[w] = "exec"

InLoop == mainPc \in {"check", "accept", "execute", "sleep"}

\* Jobs handed to execute so far.
Submitted == {j \in Jobs : jpc[j] # "new"}

\* C15: a would-block result and any other accept error submit nothing and
\* keep main in its loop; the loop is left only at the load of the flag, and
\* only when the load gives false, so while the flag is true main is in the
\* loop and the pool's drop has not begun, whatever accept returned; and the
\* connections accepted are exactly the jobs submitted, one job each.
C15_LoopEndsOnlyOnFlag ==
    /\ [] (running => (InLoop /\ sender = "open" /\ dpc = "live"))
    /\ [] (Submitted = {j \in 1..(nextJob - 1) : j # arg})
    /\ [] (\A j \in Jobs : Copies(j) <= 1 /\ runs[j] <= 1)
    /\ [][(MainAcceptWouldBlock \/ MainAcceptErr) =>
             (InLoop' /\ UNCHANGED <<Submitted, queue, nextJob, arg>>)]_vars
    /\ [][MainAcceptOk => (arg' = nextJob /\ mainPc' = "execute" /\ UNCHANGED Submitted)]_vars
    /\ [][mainPc = "execute" /\ mainPc' # "execute" =>
             (Submitted' = Submitted \cup {arg} /\ arg \notin Submitted /\ InLoop')]_vars
    /\ [][InLoop /\ ~InLoop' => (mainPc = "check" /\ ~running /\ mainPc' = "drop")]_vars

\* Witness for C15: with the flag still true, one connection was accepted
\* and submitted, the next accept gave would-block, and main sleeps.
C15_Witness ==
    /\ running
    /\ mainPc = "sleep"
    /\ nextJob = 2
    /\ Submitted = {1}
    /\ sender = "open"

\* Connections accepted so far whose execute call has returned.
Accepted == {j \in 1..(nextJob - 1) : j # arg}

\* C19: the sender is taken only when main has left its loop, so each
\* execute call of the loop finds it in place and puts its job at the end of
\* the queue: no job is discarded and no "Failed to send" line is written.
\* When the process has exited, every accepted connection, one accepted
\* after the store included, has been run by a Worker once, to its end, and
\* its stream is closed.
C19_AcceptedMeansHandled ==
    /\ [] (sender = "closed" => Stopping)
    /\ [] (late = {} /\ logs = 0 /\ \A j \in Jobs : jpc[j] # "dropped")
    /\ [] (\A j \in Accepted : jpc[j] \in {"queued", "run", "write", "done"})
    /\ [][mainPc = "execute" /\ mainPc' # "execute" =>
             (sender = "open" /\ queue' = Append(queue, arg) /\ jpc'[arg] = "queued")]_vars
    /\ [] (mainPc = "exited" =>
             /\ arg = NoJob
             /\ queue = <<>>
             /\ \A j \in Accepted :
                   jpc[j] = "done" /\ runs[j] = 1 /\ conn[j] = "closed")

\* Witness for C19: the process has exited; two connections were accepted,
\* the second in the iteration that overlapped the store, and it was
\* answered.
C19_Witness ==
    /\ mainPc = "exited"
    /\ Accepted = {1, 2}
    /\ submitsAfter = 1
    /\ resp[2] = 1

\* ------------------------------------- further claims on sanitize_path
IndexPath == << <<B.r>>, <<B.i>> >>

\* C13: a requested string that decodes, and whose decoded and trimmed value
\* is "/" or empty, is resolved as root/index_file: the result is the
\* canonical path /r/i when that is an existing regular file, and none when
\* it is not; no other path is returned for such a request.
C13_RootIsIndexFile ==
    (/\ rpc = "returned"
     /\ decode(requested).ok
     /\ trim(decode(requested).val) \in {<<>>, <<B.slash>>})
        => result = IF NodeKind(fsv, IndexPath) = "file" THEN Some(IndexPath) ELSE None

\* Witness for C13: "%20/%20" (a slash between two encoded blanks) resolved
\* to the index file.
C13_Witness ==
    /\ rpc = "returned"
    /\ requested = <<B.percent, B.two, B.zero, B.slash, B.percent, B.two, B.zero>>
    /\ result = Some(IndexPath)

\* The decoded and trimmed value of the request.
Req == trim(decode(requested).val)

RECURSIVE AfterSlashes(_)
AfterSlashes(t) ==
    IF t # <<>> /\ Head(t) = B.slash THEN AfterSlashes(Tail(t)) ELSE t

\* What the text root/name resolves to: its canonical path if that is a
\* regular file under the root.
FileUnderRoot(name) ==
    LET c == canonicalize(fsv, BaseDir \o <<B.slash>> \o name)
    IN  IF c.ok /\ UnderRoot(c.val) /\ NodeKind(fsv, c.val) = "file"
        THEN Some(c.val) ELSE None

\* C18 as stated: a value that begins with two or more slashes, followed by
\* a name, is not resolved to the file root/name.
C18_Original ==
    (/\ rpc = "returned"
     /\ decode(requested).ok
     /\ Len(Req) > 2 /\ Req[1] = B.slash /\ Req[2] = B.slash
     /\ AfterSlashes(Req) # <<>>
     /\ FileUnderRoot(AfterSlashes(Req)).some)
        => result # FileUnderRoot(AfterSlashes(Req))

\* C18 amended: for a decoded value that is neither "/" nor empty, the
\* target is the root joined with the value less all of its leading slashes,
\* so the result is what root/name resolves to, where name is what follows
\* the slashes: "//name" is resolved like "/name", and a value made of
\* slashes only ("//") is the root itself and gives none.
C18_StripsEveryLeadingSlash ==
    (/\ rpc = "returned"
     /\ decode(requested).ok
     /\ Req \notin {<<>>, <<B.slash>>})
        => result = FileUnderRoot(AfterSlashes(Req))

\* Witness for C18: "//f" resolved to /r/f.
C18_Witness ==
    /\ rpc = "returned"
    /\ requested = <<B.slash, B.slash, B.f>>
    /\ result = Some(<< <<B.r>>, <<B.f>> >>)

\* ------------------------------------- further claims on handle_client

WellFormed ==
    /\ readRes = "data"
    /\ Part(Tokens, 1) = Ok(GET) /\ Part(Tokens, 2).ok /\ Part(Tokens, 3) = Ok(HTTP11)

\* What sanitize_path answers for the path token of the request line.
Resolved == sanitize_path(fsv, BaseDir, Tokens[2], IndexFile)

\* C12: a call send_response("200 OK", ..) is made only for a well-formed
\* request line whose path sanitize_path resolved to a file under the root
\* and whose fs::read succeeded; its content is exactly the bytes of that
\* file, the Content-Length written is their number and the body written is
\* those bytes.  When fs::read fails after sanitize_path succeeded, the answer
\* is 500 with Content-Length 0 and no body.
C12_OkOnlyWithFileBytes ==
    /\ \A k \in 1..Len(calls) :
          calls[k].status = "200 OK" =>
             /\ WellFormed
             /\ Resolved.some
             /\ UnderRoot(Resolved.path)
             /\ fileOk
             /\ fileReads = 1
             /\ calls[k].content = SomeContent(Contents(Resolved.path))
             /\ writeRes # "hdr_fail" =>
                   /\ wire[1].part = "headers" /\ wire[1].status = "200 OK"
                   /\ wire[1].length = Len(Contents(Resolved.path))
             /\ wire = IF writeRes = "ok"
                       THEN <<wire[1], [part |-> "body", status |-> "", ctype |-> "",
                                        length |-> 0, connection |-> "",
                                        bytes |-> Contents(Resolved.path)]>>
                       ELSE IF writeRes = "body_fail" THEN <<wire[1]>> ELSE <<>>
    /\ (hpc = "closed" /\ WellFormed /\ Resolved.some) =>
          IF fileOk
          THEN Len(calls) = 1 /\ calls[1].status = "200 OK"
          ELSE Answered("500 Internal Server Error")

\* Witness for C12: GET /f HTTP/1.1 was answered 200 with the two bytes of
\* /r/f and Content-Length 2.
C12_Witness ==
    /\ hpc = "closed"
    /\ Tokens = <<GET, <<B.slash, B.f>>, HTTP11>>
    /\ Len(wire) = 2
    /\ wire[1].status = "200 OK" /\ wire[1].length = 2
    /\ wire[2].bytes = <<B.f, B.lf>>

=============================================================================
